---- MODULE Spec2Model ----
(***************************************************************************)
(* A model of dary: a byte-keyed building trie (src/src/trie.rs) that is   *)
(* compiled into a double array (BASE, CHECK, DATA) and read back through  *)
(* a header + byte blob (src/src/double_array.rs).                         *)
(*                                                                         *)
(* Conventions.  Rust vectors and slices are TLA+ sequences; a Rust index  *)
(* i is position i + 1 of the sequence, and At(s, i) reads it.  The value  *)
(* type T is u32, encoded by bincode as a u64 little-endian element count  *)
(* followed by 4 little-endian bytes per element.  Integers that the code  *)
(* reinterprets as bytes (utils::to_bytes, the header) are little-endian,  *)
(* the byte order of the hosts the crate is built for.                     *)
(***************************************************************************)
EXTENDS Integers, Sequences, FiniteSets, TLC

VARIABLES
    pc,         \* position of the caller: "trie", "convert", "built", "panic"
    trie,       \* the Trie under construction (root, len)
    sets,       \* ghost: for every key, the values set for it, in call order
    len,        \* to_double_array: current length of base_arr / check_arr
    base_arr,   \* to_double_array: Vec<u32>
    check_arr,  \* to_double_array: Vec<u32>
    data_arr,   \* to_double_array: Vec<u8>
    bit_cache,  \* to_double_array: the BitCache
    stack,      \* to_double_array: Vec<(usize, Node)>
    da,         \* the DoubleArray (mmap bytes and header), once built
    file,       \* the bytes of the file at the dump path
    dumped,     \* ghost: the answers of the index that dump consumed
    res,        \* the last lookup made and what it returned
    iter,       \* the live PrefixSearchIter and what has been pulled from it
    arrs,       \* the (a, b, c) handed to from_arrays in the layout runs
    writes      \* ghost: the writes to_double_array made to BASE and CHECK

vars == <<pc, trie, sets, writes, len, base_arr, check_arr, data_arr, bit_cache,
          stack, da, file, dumped, res, iter, arrs, writes>>

----------------------------------------------------------------------------
(* Bounds of the model *)

\* number of Trie::set calls made before to_double_array
MaxSets == 3

\* number of Trie::set calls of the run that fills one key to the value cap
MaxCapSets == 257

\* length of the u32 arrays handed to from_arrays in the layout runs
MaxArrLen == 2

(* Program constants *)

\* u8::max_value() as usize + 1
max_key == 256

\* u8::max_value(), the key of the value (sentinel) node
U8Max == 255

\* mem::size_of::<DoubleArrayHeader>(): five usize fields
header_size == 40

\* the most values the documentation of Trie::set allows for one key
ValueCap == 256

\* bits of one BitCache chunk
BChunkSize == 64

(* Input sets *)

\* the keys given to Trie::set: &str bytes, so never 0xFF
SetKeys == { <<>>, <<97>>, <<98>>, <<97, 98>> }

\* the keys looked up; the byte 127 is above every byte of a set key
QueryKeys == SetKeys \cup { <<97, 97>>, <<97, 98, 97>>, <<127>> }

\* the values given to Trie::set (300 takes two bytes)
Values == { 1, 300 }

None == [some |-> FALSE, panic |-> FALSE, val |-> <<>>]
Some(v) == [some |-> TRUE, panic |-> FALSE, val |-> v]
Panic == [some |-> FALSE, panic |-> TRUE, val |-> <<>>]

----------------------------------------------------------------------------
(* Sequences as Rust vectors *)

At(s, i) == s[i + 1]

Zeros(n) == [i \in 1..n |-> 0]

\* Vec::resize(new_len, 0)
Resize(s, n) ==
    IF n <= Len(s) THEN SubSeq(s, 1, n) ELSE s \o Zeros(n - Len(s))

\* Vec::insert(i, x)
InsertAt(s, i, x) == SubSeq(s, 1, i) \o <<x>> \o SubSeq(s, i + 1, Len(s))

SetAt(s, i, x) == [s EXCEPT ![i + 1] = x]

IsPrefix(p, q) == Len(p) <= Len(q) /\ SubSeq(q, 1, Len(p)) = p

\* byte i (from the low end) of n
RECURSIVE ByteOf(_, _)
ByteOf(n, i) == IF i = 0 THEN n % 256 ELSE ByteOf(n \div 256, i - 1)

\* the w little-endian bytes of n
LEBytes(n, w) == [i \in 1..w |-> ByteOf(n, i - 1)]

\* the integer held in the w little-endian bytes of s from offset off
RECURSIVE LEValue(_, _, _)
LEValue(s, off, w) ==
    IF w = 0 THEN 0 ELSE At(s, off) + 256 * LEValue(s, off + 1, w - 1)

----------------------------------------------------------------------------
(* trie.rs: Node and Trie *)

NewNode(k) == [key |-> k, values |-> <<>>, nexts |-> <<>>]

TrieNew == [root |-> NewNode(0), len |-> 0]

\* slice::binary_search_by(|probe| probe.key.cmp(&k)) on nexts[lo..hi]:
\* Ok(i) when nexts[i].key = k, otherwise Err(i) with i the insertion point
RECURSIVE binary_search(_, _, _, _)
binary_search(nexts, k, lo, hi) ==
    IF lo >= hi THEN [ok |-> FALSE, i |-> lo]
    ELSE LET mid == lo + ((hi - lo) \div 2)
             probe == At(nexts, mid).key
         IN  IF probe = k THEN [ok |-> TRUE, i |-> mid]
             ELSE IF probe < k THEN binary_search(nexts, k, mid + 1, hi)
             ELSE binary_search(nexts, k, lo, mid)

\* Trie::set with nexts.push in place of nexts.insert(i, ..)
RECURSIVE SetNodePush(_, _, _)
SetNodePush(node, key, value) ==
    IF key = <<>> THEN [node EXCEPT !.values = Append(@, value)]
    ELSE LET k == Head(key)
             r == binary_search(node.nexts, k, 0, Len(node.nexts))
         IN  IF r.ok
             THEN [node EXCEPT !.nexts[r.i + 1] =
                      SetNodePush(@, Tail(key), value)]
             ELSE [node EXCEPT !.nexts =
                      Append(@, SetNodePush(NewNode(k), Tail(key), value))]

\* the descent of Trie::set below one node, ending in values.push(value)
RECURSIVE SetNode(_, _, _)
SetNode(node, key, value) ==
    IF key = <<>> THEN [node EXCEPT !.values = Append(@, value)]
    ELSE LET k == Head(key)
             r == binary_search(node.nexts, k, 0, Len(node.nexts))
         IN  IF r.ok
             THEN [node EXCEPT !.nexts[r.i + 1] = SetNode(@, Tail(key), value)]
             ELSE [node EXCEPT !.nexts =
                      InsertAt(@, r.i, SetNode(NewNode(k), Tail(key), value))]

TrieSet(t, key, value) ==
    [root |-> SetNode(t.root, key, value), len |-> t.len + 1]

\* Trie::get below one node
RECURSIVE GetNode(_, _)
GetNode(node, key) ==
    IF key = <<>>
    THEN IF node.values = <<>> THEN None ELSE Some(node.values)
    ELSE LET r == binary_search(node.nexts, Head(key), 0, Len(node.nexts))
         IN  IF r.ok THEN GetNode(At(node.nexts, r.i), Tail(key)) ELSE None

TrieGet(t, key) == GetNode(t.root, key)

----------------------------------------------------------------------------
(* bit_cache.rs: BitCache, the set of occupied indices and a search cursor *)

\* BitCache::new(): nothing occupied, the cursor at index 256
BitCacheNew == [bits |-> {}, start |-> max_key]

BitCacheSet(bc, i) == [bc EXCEPT !.bits = @ \cup {i}]

BitCacheGet(bc, i) == IF i \in bc.bits THEN 1 ELSE 0

\* the chunk that begins at index s has no free bit
ChunkFull(bc, s) == \A i \in s..(s + BChunkSize - 1) : i \in bc.bits

RECURSIVE SkipFullChunks(_, _)
SkipFullChunks(bc, s) ==
    IF ChunkFull(bc, s) THEN SkipFullChunks(bc, s + BChunkSize) ELSE s

\* BitCache::update_start(): move the cursor past the chunks that are full
BitCacheUpdateStart(bc) == [bc EXCEPT !.start = SkipFullChunks(bc, @)]

RECURSIVE FirstEmptyFrom(_, _)
FirstEmptyFrom(bc, i) == IF i \in bc.bits THEN FirstEmptyFrom(bc, i + 1) ELSE i

\* BitCache::find_empty_idx(offset): the first free index at or after
\* cursor + offset
BitCacheFindEmptyIdx(bc, offset) == FirstEmptyFrom(bc, bc.start + offset)

SetMax(S) == CHOOSE x \in S : \A y \in S : y <= x

\* BitCache::last_index_of_one(): the greatest occupied index, if any
BitCacheLastIndexOfOne(bc) ==
    IF bc.bits = {} THEN None ELSE Some(SetMax(bc.bits))

----------------------------------------------------------------------------
(* trie.rs: find_base *)

\* the 'outer loop of find_base from a given offset; [panic, base]
RECURSIVE FindBaseFrom(_, _, _)
FindBaseFrom(nodes, bc, offset) ==
    LET first_key == At(nodes, 0).key
        empty_idx == BitCacheFindEmptyIdx(bc, offset)
        new_base  == empty_idx - first_key
    IN  IF empty_idx < 256 THEN [panic |-> TRUE, base |-> 0]
        ELSE IF \E j \in 1..Len(nodes) :
                    BitCacheGet(bc, new_base + nodes[j].key) # 0
        THEN FindBaseFrom(nodes, bc, offset + 1)
        ELSE [panic |-> FALSE, base |-> new_base]

\* find_base that takes the first free index without looking at the slots
\* of the children
find_base_first_free(nodes, bc) ==
    IF nodes = <<>> THEN [panic |-> TRUE, base |-> 0]
    ELSE [panic |-> FALSE,
          base |-> BitCacheFindEmptyIdx(bc, 0) - At(nodes, 0).key]

\* Trie::find_base; [panic, base]
find_base(nodes, bc) ==
    IF nodes = <<>> THEN [panic |-> TRUE, base |-> 0]
    ELSE FindBaseFrom(nodes, bc, 0)

----------------------------------------------------------------------------
(* The value codec: bincode on Vec<u32> *)

\* bincode::serialize(&values): u64 count, then every u32, little-endian
Serialize(values) ==
    [i \in 1..(8 + 4 * Len(values)) |->
        IF i <= 8 THEN ByteOf(Len(values), i - 1)
        ELSE ByteOf(values[((i - 9) \div 4) + 1], (i - 9) % 4)]

\* bincode::deserialize(&data[off..]).unwrap(): Panic when off is past the
\* end of data or the bytes run out before the announced count is read
Deserialize(data, off) ==
    IF off > Len(data) \/ off + 8 > Len(data) THEN Panic
    ELSE LET n == LEValue(data, off, 8)
         IN  IF off + 8 + 4 * n > Len(data) THEN Panic
             ELSE Some([j \in 1..n |-> LEValue(data, off + 8 + 4 * (j - 1), 4)])

----------------------------------------------------------------------------
(* utils.rs and double_array.rs: the blob *)

\* utils::to_bytes on a &[u32]
to_bytes(arr) ==
    [i \in 1..(4 * Len(arr)) |->
        ByteOf(arr[((i - 1) \div 4) + 1], (i - 1) % 4)]

\* the bytes of a DoubleArrayHeader: its five usize fields in order
HeaderBytes(h) ==
    LEBytes(h.base_idx, 8) \o LEBytes(h.check_idx, 8) \o LEBytes(h.data_idx, 8)
        \o LEBytes(h.base_len, 8) \o LEBytes(h.check_len, 8)

\* ptr::read(mmap.as_ptr() as *const DoubleArrayHeader)
ReadHeader(mmap) ==
    [base_idx  |-> LEValue(mmap, 0, 8),
     check_idx |-> LEValue(mmap, 8, 8),
     data_idx  |-> LEValue(mmap, 16, 8),
     base_len  |-> LEValue(mmap, 24, 8),
     check_len |-> LEValue(mmap, 32, 8)]

\* (&mut buf[off..]).write_all(bytes): the bytes that fit are written
WriteAll(buf, off, bytes) ==
    SubSeq(SubSeq(buf, 1, off) \o bytes
               \o SubSeq(buf, off + Len(bytes) + 1, Len(buf)),
           1, Len(buf))

\* from_arrays with check_idx and data_idx counted in elements, not bytes
from_arrays_elems(b_arr, c_arr, data_bytes) ==
    LET base_bytes  == to_bytes(b_arr)
        check_bytes == to_bytes(c_arr)
        header == [base_idx  |-> header_size,
                   check_idx |-> header_size + Len(b_arr),
                   data_idx  |-> header_size + Len(b_arr) + Len(c_arr),
                   base_len  |-> Len(b_arr),
                   check_len |-> Len(c_arr)]
        bytes_len == header_size + Len(base_bytes) + Len(check_bytes)
                        + Len(data_bytes)
        m1 == WriteAll(Zeros(bytes_len), 0, HeaderBytes(header))
        m2 == WriteAll(m1, header.base_idx, base_bytes)
        m3 == WriteAll(m2, header.check_idx, check_bytes)
        m4 == WriteAll(m3, header.data_idx, data_bytes)
    IN  [mmap |-> m4, header |-> header]

from_arrays(b_arr, c_arr, data_bytes) ==
    LET base_bytes  == to_bytes(b_arr)
        check_bytes == to_bytes(c_arr)
        header == [base_idx  |-> header_size,
                   check_idx |-> header_size + Len(base_bytes),
                   data_idx  |-> header_size + Len(base_bytes) + Len(check_bytes),
                   base_len  |-> Len(b_arr),
                   check_len |-> Len(c_arr)]
        bytes_len == header_size + Len(base_bytes) + Len(check_bytes)
                        + Len(data_bytes)
        m0 == Zeros(bytes_len)
        m1 == WriteAll(m0, 0, HeaderBytes(header))
        m2 == WriteAll(m1, header.base_idx, base_bytes)
        m3 == WriteAll(m2, header.check_idx, check_bytes)
        m4 == WriteAll(m3, header.data_idx, data_bytes)
    IN  [mmap |-> m4, header |-> header]

from_slice(bytes) == [mmap |-> bytes, header |-> ReadHeader(bytes)]

\* from_file: map the file and read the header from its first bytes
from_file(f) == [mmap |-> f, header |-> ReadHeader(f)]

\* File::set_len: cut the file or extend it with zero bytes
SetLen(f, n) == Resize(f, n)

\* dump without the write_all: the file only gets its length
DumpFileNoWrite(d, f) == SetLen(f, Len(d.mmap))

\* the file that DoubleArray::dump leaves at the path
DumpFile(d, f) == WriteAll(SetLen(f, Len(d.mmap)), 0, d.mmap)

\* get_arrays: the three slices the header describes.  A &[u32] made by
\* slice::from_raw_parts is a byte offset into the mapping and a length;
\* data_arr is the rest of the mapping from data_idx
get_arrays(d) ==
    [mmap      |-> d.mmap,
     base_arr  |-> [ptr |-> d.header.base_idx, len |-> d.header.base_len],
     check_arr |-> [ptr |-> d.header.check_idx, len |-> d.header.check_len],
     data_arr  |-> SubSeq(d.mmap, d.header.data_idx + 1, Len(d.mmap))]

\* element i of a &[u32] slice of the mapping
U32At(A, slice, i) == LEValue(A.mmap, slice.ptr + 4 * i, 4)

\* a &[u32] slice of the mapping, as the vector of its elements
U32Slice(A, slice) == [i \in 1..slice.len |-> U32At(A, slice, i - 1)]

----------------------------------------------------------------------------
(* double_array.rs: the lookups.  An index past the end of a slice, or a  *)
(* failed deserialize().unwrap(), is a panic.                              *)

\* the probe without the comparison of CHECK with idx
ProbeValueNoCheck(A, idx, base) ==
    LET value_idx == base + U8Max
    IN  IF value_idx >= A.check_arr.len THEN Panic
        ELSE IF value_idx >= A.base_arr.len THEN Panic
        ELSE Deserialize(A.data_arr, U32At(A, A.base_arr, value_idx))

\* the probe of the value node of idx: base + 0xFF, then the DATA block
ProbeValue(A, idx, base) ==
    LET value_idx == base + U8Max
    IN  IF value_idx >= A.check_arr.len THEN Panic
        ELSE IF U32At(A, A.check_arr, value_idx) # idx THEN None
        ELSE IF value_idx >= A.base_arr.len THEN Panic
        ELSE Deserialize(A.data_arr, U32At(A, A.base_arr, value_idx))

\* the loop of DoubleArray::get over the bytes left in key, then the probe
RECURSIVE GetWalk(_, _, _, _)
GetWalk(A, key, idx, base) ==
    IF key = <<>> THEN ProbeValue(A, idx, base)
    ELSE LET next_idx == base + Head(key)
         IN  IF next_idx >= A.check_arr.len THEN Panic
             ELSE IF U32At(A, A.check_arr, next_idx) # idx THEN None
             ELSE IF next_idx >= A.base_arr.len THEN Panic
             ELSE GetWalk(A, Tail(key), next_idx, U32At(A, A.base_arr, next_idx))

\* DoubleArray::get
get(d, key) ==
    LET A == get_arrays(d)
    IN  IF 1 >= A.base_arr.len THEN Panic
        ELSE GetWalk(A, key, 1, U32At(A, A.base_arr, 1))

\* the loop of DoubleArray::prefix_search from byte i of key
RECURSIVE PrefixWalk(_, _, _, _, _, _)
PrefixWalk(A, key, i, idx, base, ret) ==
    IF i >= Len(key) THEN Some(ret)
    ELSE LET next_idx == base + At(key, i)
         IN  IF next_idx >= A.check_arr.len THEN Panic
             ELSE IF U32At(A, A.check_arr, next_idx) # idx THEN Some(ret)
             ELSE IF next_idx >= A.base_arr.len THEN Panic
             ELSE LET nbase == U32At(A, A.base_arr, next_idx)
                      v == ProbeValue(A, next_idx, nbase)
                  IN  IF v.panic THEN Panic
                      ELSE PrefixWalk(A, key, i + 1, next_idx, nbase,
                              IF v.some
                              THEN Append(ret, <<SubSeq(key, 1, i + 1), v.val>>)
                              ELSE ret)

\* prefix_search that starts the walk at index 0 instead of the root
prefix_search_idx0(d, key) ==
    LET A == get_arrays(d)
    IN  IF 0 >= A.base_arr.len THEN Panic
        ELSE PrefixWalk(A, key, 0, 0, U32At(A, A.base_arr, 0), <<>>)

\* DoubleArray::prefix_search; val is the returned Vec
prefix_search(d, key) ==
    LET A == get_arrays(d)
    IN  IF 1 >= A.base_arr.len THEN Panic
        ELSE PrefixWalk(A, key, 0, 1, U32At(A, A.base_arr, 1), <<>>)

\* DoubleArray::prefix_search_iter
prefix_search_iter(key) == [key |-> key, key_ptr |-> 0, arr_ptr |-> 1]

\* the while loop of PrefixSearchIter::next; [it, out]
RECURSIVE IterWalk(_, _, _)
IterWalk(A, it, base) ==
    IF it.key_ptr >= Len(it.key) THEN [it |-> it, out |-> None]
    ELSE LET next_arr_ptr == base + At(it.key, it.key_ptr)
             it1 == [it EXCEPT !.key_ptr = @ + 1]
         IN  IF next_arr_ptr >= A.check_arr.len THEN [it |-> it1, out |-> Panic]
             ELSE IF U32At(A, A.check_arr, next_arr_ptr) # it.arr_ptr
                  THEN [it |-> it1, out |-> None]
             ELSE LET it2 == [it1 EXCEPT !.arr_ptr = next_arr_ptr]
                  IN  IF next_arr_ptr >= A.base_arr.len
                      THEN [it |-> it2, out |-> Panic]
                      ELSE LET nbase == U32At(A, A.base_arr, next_arr_ptr)
                               v == ProbeValue(A, next_arr_ptr, nbase)
                           IN  IF v.panic THEN [it |-> it2, out |-> Panic]
                               ELSE IF v.some
                               THEN [it |-> it2,
                                     out |-> Some(<<SubSeq(it.key, 1, it2.key_ptr),
                                                    v.val>>)]
                               ELSE IterWalk(A, it2, nbase)

\* next that takes the base of the root instead of the base of arr_ptr
iter_next_root(d, it) ==
    LET A == get_arrays(d)
    IN  IF it.arr_ptr >= A.base_arr.len THEN [it |-> it, out |-> Panic]
        ELSE IterWalk(A, it, U32At(A, A.base_arr, 1))

\* PrefixSearchIter::next
iter_next(d, it) ==
    LET A == get_arrays(d)
    IN  IF it.arr_ptr >= A.base_arr.len THEN [it |-> it, out |-> Panic]
        ELSE IterWalk(A, it, U32At(A, A.base_arr, it.arr_ptr))

----------------------------------------------------------------------------
(* The state machine *)

NoIndex == [mmap |-> <<>>,
            header |-> [base_idx |-> 0, check_idx |-> 0, data_idx |-> 0,
                        base_len |-> 0, check_len |-> 0]]
NoCall == [op |-> "none", key |-> <<>>, out |-> None]
NoIter == [live |-> FALSE, it |-> prefix_search_iter(<<>>), items |-> <<>>,
           ended |-> FALSE]
NoDump == [done |-> FALSE, get |-> <<>>, prefix_search |-> <<>>]
NoArrs == [a |-> <<>>, b |-> <<>>, c |-> <<>>]

Init ==
    /\ pc = "trie"
    /\ trie = TrieNew
    /\ sets = [k \in SetKeys |-> <<>>]
    /\ len = 0
    /\ base_arr = <<>>
    /\ check_arr = <<>>
    /\ data_arr = <<>>
    /\ bit_cache = BitCacheNew
    /\ stack = <<>>
    /\ da = NoIndex
    /\ file = <<>>
    /\ dumped = NoDump
    /\ res = NoCall
    /\ iter = NoIter
    /\ arrs = NoArrs
    /\ writes = <<>>

builder == <<len, base_arr, check_arr, data_arr, bit_cache, stack>>

\* Trie::set(key, value); the slice a Trie::get returned is no longer borrowed
SetCall(key, value) ==
    /\ pc = "trie"
    /\ trie' = TrieSet(trie, key, value)
    /\ sets' = [sets EXCEPT ![key] = Append(@, value)]
    /\ res' = NoCall
    /\ UNCHANGED <<pc, builder, da, file, dumped, iter, arrs, writes>>

Set == \E key \in SetKeys, value \in Values :
    /\ trie.len < MaxSets
    /\ SetCall(key, value)

\* Trie::get(key)
TrieGetCall == \E key \in QueryKeys :
    /\ pc = "trie"
    /\ trie.len <= MaxSets
    /\ res' = [op |-> "trie_get", key |-> key, out |-> TrieGet(trie, key)]
    /\ UNCHANGED <<pc, trie, sets, writes, builder, da, file, dumped, iter, arrs>>

\* Trie::to_double_array up to the while loop
ToDoubleArray ==
    /\ pc = "trie"
    /\ trie.len <= MaxSets
    /\ pc' = "convert"
    /\ len' = IF max_key > 4 * trie.len THEN max_key ELSE 4 * trie.len
    /\ base_arr' = Zeros(len')
    /\ check_arr' = Zeros(len')
    /\ data_arr' = <<>>
    /\ bit_cache' = BitCacheSet(BitCacheSet(BitCacheNew, 0), 1)
    /\ stack' = IF trie.root.nexts # <<>> THEN <<<<1, trie.root>>>> ELSE <<>>
    /\ res' = NoCall
    /\ writes' = <<>>
    /\ UNCHANGED <<trie, sets, da, file, dumped, iter, arrs>>

\* a write to_double_array makes at index idx of BASE or CHECK while the
\* arrays are length long, for the child with key byte key (-1: the node
\* itself) of the node at index node, which the key bytes of path lead to
Write(arr, idx, length, node, key, path) ==
    [arr |-> arr, idx |-> idx, len |-> length, node |-> node, key |-> key,
     path |-> path]

\* the key bytes that lead to the node placed at index idx
PathAt(log, idx) ==
    IF idx = 1 THEN <<>>
    ELSE LET w == log[CHOOSE j \in 1..Len(log) :
                        log[j].arr = "check" /\ log[j].idx = idx]
         IN  w.path \o <<w.key>>

\* the body of the for loop over node.nexts that takes the length of
\* data_arr after the values are appended
RegisterNodeDataEnd(st, n, values, curr_idx, base) ==
    LET i == base + n.key
        bc == BitCacheSet(st.bit_cache, i)
        w == Write("check", i, Len(st.check_arr), curr_idx, n.key, st.path)
    IN  IF i >= Len(st.check_arr)
        THEN [st EXCEPT !.bit_cache = bc, !.writes = Append(@, w),
                        !.panic = TRUE]
        ELSE IF n.key = U8Max
        THEN [st EXCEPT !.bit_cache = bc,
                        !.check_arr = SetAt(@, i, curr_idx),
                        !.base_arr = SetAt(@, i, Len(st.data_arr \o Serialize(values))),
                        !.data_arr = @ \o Serialize(values),
                        !.writes = @ \o <<w, [w EXCEPT !.arr = "base"]>>]
        ELSE [st EXCEPT !.bit_cache = bc,
                        !.check_arr = SetAt(@, i, curr_idx),
                        !.stack = Append(@, <<i, n>>),
                        !.writes = Append(@, w)]

\* the body of the for loop over node.nexts, for the child n: st holds the
\* vectors, the bit cache, the stack and whether a write was out of range
RegisterNode(st, n, values, curr_idx, base) ==
    LET i == base + n.key
        bc == BitCacheSet(st.bit_cache, i)
        w == Write("check", i, Len(st.check_arr), curr_idx, n.key, st.path)
    IN  IF i >= Len(st.check_arr)
        THEN [st EXCEPT !.bit_cache = bc, !.writes = Append(@, w),
                        !.panic = TRUE]
        ELSE IF n.key = U8Max
        THEN [st EXCEPT !.bit_cache = bc,
                        !.check_arr = SetAt(@, i, curr_idx),
                        !.base_arr = SetAt(@, i, Len(st.data_arr)),
                        !.data_arr = @ \o Serialize(values),
                        !.writes = @ \o <<w, [w EXCEPT !.arr = "base"]>>]
        ELSE [st EXCEPT !.bit_cache = bc,
                        !.check_arr = SetAt(@, i, curr_idx),
                        !.stack = Append(@, <<i, n>>),
                        !.writes = Append(@, w)]

\* the for loop over node.nexts of one iteration of the while loop
RECURSIVE RegisterNodes(_, _, _, _, _)
RegisterNodes(st, nexts, values, curr_idx, base) ==
    IF nexts = <<>> \/ st.panic THEN st
    ELSE RegisterNodes(RegisterNode(st, Head(nexts), values, curr_idx, base),
                       Tail(nexts), values, curr_idx, base)

\* the array length that never grows
GrowLenNever(base, length) == length

\* the array length after "if base + max_key >= len { len = len * 2 }"
GrowLen(base, length) == IF base + max_key >= length THEN length * 2 ELSE length

\* one iteration of the while loop of to_double_array
ConvertNode ==
    /\ pc = "convert"
    /\ stack # <<>>
    /\ LET curr_idx == stack[Len(stack)][1]
           node0 == stack[Len(stack)][2]
           bc == BitCacheUpdateStart(bit_cache)
           nexts == IF node0.values # <<>>
                    THEN Append(node0.nexts, NewNode(U8Max))
                    ELSE node0.nexts
           fb == find_base(nexts, bc)
           len1 == GrowLen(fb.base, len)
           path == PathAt(writes, curr_idx)
           w0 == Write("base", curr_idx, len, curr_idx, -1, path)
           st0 == [base_arr  |-> Resize(SetAt(base_arr, curr_idx, fb.base), len1),
                   check_arr |-> Resize(check_arr, len1),
                   data_arr  |-> data_arr,
                   bit_cache |-> bc,
                   stack     |-> SubSeq(stack, 1, Len(stack) - 1),
                   writes    |-> Append(writes, w0),
                   path      |-> path,
                   panic     |-> FALSE]
           st == RegisterNodes(st0, nexts, node0.values, curr_idx, fb.base)
       IN  IF fb.panic
           THEN /\ pc' = "panic"
                /\ bit_cache' = bc
                /\ stack' = st0.stack
                /\ UNCHANGED <<len, base_arr, check_arr, data_arr, writes>>
           ELSE IF curr_idx >= len
           THEN /\ pc' = "panic"
                /\ bit_cache' = bc
                /\ stack' = st0.stack
                /\ writes' = st0.writes
                /\ UNCHANGED <<len, base_arr, check_arr, data_arr>>
           ELSE /\ pc' = IF st.panic THEN "panic" ELSE "convert"
                /\ len' = len1
                /\ base_arr' = st.base_arr
                /\ check_arr' = st.check_arr
                /\ data_arr' = st.data_arr
                /\ bit_cache' = st.bit_cache
                /\ stack' = st.stack
                /\ writes' = st.writes
    /\ UNCHANGED <<trie, sets, da, file, dumped, res, iter, arrs>>

\* the final length that keeps only the occupied indices
FinalLenOccupied(last) == IF last.some THEN last.val + 1 ELSE max_key

\* the length to_double_array resizes the arrays to in the end
FinalLen(last) == IF last.some THEN last.val + max_key ELSE max_key

\* to_double_array after the while loop: the final resize and from_arrays
ConvertFinish ==
    /\ pc = "convert"
    /\ stack = <<>>
    /\ LET new_len == FinalLen(BitCacheLastIndexOfOne(bit_cache))
       IN  da' = from_arrays(Resize(base_arr, new_len),
                             Resize(check_arr, new_len), data_arr)
    /\ pc' = "built"
    /\ len' = 0
    /\ base_arr' = <<>>
    /\ check_arr' = <<>>
    /\ data_arr' = <<>>
    /\ bit_cache' = BitCacheNew
    /\ UNCHANGED <<trie, sets, writes, stack, file, dumped, res, iter, arrs>>

\* the caller after a lookup: a panic ends the program
AfterCall(out) == IF out.panic THEN "panic" ELSE pc

\* DoubleArray::get(key)
GetCall(key) ==
    /\ pc = "built"
    /\ ~iter.live
    /\ LET out == get(da, key)
       IN  /\ res' = [op |-> "get", key |-> key, out |-> out]
           /\ pc' = AfterCall(out)
    /\ UNCHANGED <<trie, sets, writes, builder, da, file, dumped, iter, arrs>>

Get == \E key \in QueryKeys : GetCall(key)

\* DoubleArray::prefix_search(key)
PrefixSearchCall(key) ==
    /\ pc = "built"
    /\ ~iter.live
    /\ LET out == prefix_search(da, key)
       IN  /\ res' = [op |-> "prefix_search", key |-> key, out |-> out]
           /\ pc' = AfterCall(out)
    /\ UNCHANGED <<trie, sets, writes, builder, da, file, dumped, iter, arrs>>

PrefixSearch == \E key \in QueryKeys : PrefixSearchCall(key)

\* DoubleArray::prefix_search_iter(key)
PrefixSearchIterCall(key) ==
    /\ pc = "built"
    /\ ~iter.live
    /\ iter' = [live |-> TRUE, it |-> prefix_search_iter(key), items |-> <<>>,
                ended |-> FALSE]
    /\ res' = NoCall
    /\ UNCHANGED <<pc, trie, sets, writes, builder, da, file, dumped, arrs>>

PrefixSearchIter == \E key \in QueryKeys : PrefixSearchIterCall(key)

\* PrefixSearchIter::next(); items collects what is pulled up to the first
\* None
IterNext ==
    /\ pc = "built"
    /\ iter.live
    /\ LET r == iter_next(da, iter.it)
       IN  /\ iter' = [iter EXCEPT
                          !.it = r.it,
                          !.items = IF r.out.some /\ ~iter.ended
                                    THEN Append(@, r.out.val) ELSE @,
                          !.ended = @ \/ ~r.out.some]
           /\ res' = [op |-> "next", key |-> iter.it.key, out |-> r.out]
           /\ pc' = AfterCall(r.out)
    /\ UNCHANGED <<trie, sets, writes, builder, da, file, dumped, arrs>>

\* the iterator is dropped
IterDrop ==
    /\ pc = "built"
    /\ iter.live
    /\ iter' = NoIter
    /\ res' = NoCall
    /\ UNCHANGED <<pc, trie, sets, writes, builder, da, file, dumped, arrs>>

\* the files that may be at the dump path before the dump: none or an
\* empty one, a shorter one, a longer one
PriorFiles(d) ==
    { <<>>, <<7, 7, 7>>,
      [i \in 1..(Len(d.mmap) + 3) |-> IF i % 8 = 1 THEN 7 ELSE 0] }

\* DoubleArray::dump(path): the index is consumed, the file written and
\* reopened with from_file
Dump == \E prior \in PriorFiles(da) :
    /\ pc = "built"
    /\ ~iter.live
    /\ ~dumped.done
    /\ dumped' = [done |-> TRUE,
                  get |-> [k \in QueryKeys |-> get(da, k)],
                  prefix_search |-> [k \in QueryKeys |-> prefix_search(da, k)]]
    /\ file' = DumpFile(da, prior)
    /\ da' = from_file(file')
    /\ res' = NoCall
    /\ UNCHANGED <<pc, trie, sets, writes, builder, iter, arrs>>

Next ==
    \/ Set
    \/ TrieGetCall
    \/ ToDoubleArray
    \/ ConvertNode
    \/ ConvertFinish
    \/ Get
    \/ PrefixSearch
    \/ PrefixSearchIter
    \/ IterNext
    \/ IterDrop
    \/ Dump

Spec == Init /\ [][Next]_vars

----------------------------------------------------------------------------
(* Filling one key: Trie::set called again and again on the same key *)

CapKey == <<97>>

SetSameKey ==
    /\ trie.len < MaxCapSets
    /\ SetCall(CapKey, 1)

NextCap == SetSameKey

SpecCap == Init /\ [][NextCap]_vars

----------------------------------------------------------------------------
(* The blob layout: an index made from arbitrary arrays by from_arrays,  *)
(* and loaded again from its bytes by from_slice                          *)

\* u32 values whose four bytes are all different, all equal, or zero
LayoutValues == { 0, 1, 16909060 }

LayoutBytes == { 100 }

SeqsUpTo(S, n) == UNION { [1..m -> S] : m \in 0..n }

\* the keys looked up in an index made from arbitrary arrays
BlobKeys == { <<>>, <<0>>, <<97>> }

InitBlob ==
    /\ pc = "arrays"
    /\ trie = TrieNew
    /\ sets = [k \in SetKeys |-> <<>>]
    /\ len = 0
    /\ base_arr = <<>>
    /\ check_arr = <<>>
    /\ data_arr = <<>>
    /\ bit_cache = BitCacheNew
    /\ stack = <<>>
    /\ da = NoIndex
    /\ file = <<>>
    /\ dumped = NoDump
    /\ res = NoCall
    /\ iter = NoIter
    /\ writes = <<>>
    /\ \E a \in SeqsUpTo(LayoutValues, MaxArrLen),
          b \in SeqsUpTo(LayoutValues, MaxArrLen),
          c \in SeqsUpTo(LayoutBytes, MaxArrLen) :
            arrs = [a |-> a, b |-> b, c |-> c]

\* DoubleArray::from_arrays(a, b, c)
FromArrays ==
    /\ pc = "arrays"
    /\ da' = from_arrays(arrs.a, arrs.b, arrs.c)
    /\ pc' = "built"
    /\ res' = [op |-> "from_arrays", key |-> <<>>, out |-> None]
    /\ UNCHANGED <<trie, sets, writes, builder, file, dumped, iter, arrs>>

\* DoubleArray::from_slice(bytes) on the blob of the index
FromSlice ==
    /\ pc = "built"
    /\ ~iter.live
    /\ res.op = "from_arrays"
    /\ da' = from_slice(da.mmap)
    /\ res' = [op |-> "from_slice", key |-> <<>>, out |-> None]
    /\ UNCHANGED <<pc, trie, sets, writes, builder, file, dumped, iter, arrs>>

BlobGet == \E key \in BlobKeys : GetCall(key)

BlobPrefixSearch == \E key \in BlobKeys : PrefixSearchCall(key)

BlobPrefixSearchIter == \E key \in BlobKeys : PrefixSearchIterCall(key)

NextBlob ==
    \/ FromArrays
    \/ FromSlice
    \/ BlobGet
    \/ BlobPrefixSearch
    \/ BlobPrefixSearchIter
    \/ IterNext
    \/ IterDrop

SpecBlob == InitBlob /\ [][NextBlob]_vars

----------------------------------------------------------------------------
(* find_base alone: a child list and a bit cache, as in test_find_base_1 *)

\* the number of indices from 256 on that may be occupied beforehand
MaxFindBits == 4

\* the key bytes of the children
FindKeys == { 0, 2, 5, 255 }

\* where the search cursor stands
FindStarts == { 256, 258 }

\* the indices that may be occupied beforehand: the first ones from 256 on
\* and those just below 512, where the child 255 of a low base falls
FindBits == (256..(256 + MaxFindBits - 1)) \cup { 509, 510, 511 }

\* the elements of a set of numbers as an ascending sequence
RECURSIVE SortedSeq(_)
SortedSeq(S) ==
    IF S = {} THEN <<>>
    ELSE LET m == CHOOSE x \in S : \A y \in S : x <= y
         IN  <<m>> \o SortedSeq(S \ {m})

\* the children with the key bytes of S, ascending as Trie::set keeps them
NodesOf(S) == LET ks == SortedSeq(S) IN [j \in 1..Len(ks) |-> NewNode(ks[j])]

InitFindBase ==
    /\ pc = "find_base"
    /\ trie = TrieNew
    /\ sets = [k \in SetKeys |-> <<>>]
    /\ len = 0
    /\ base_arr = <<>>
    /\ check_arr = <<>>
    /\ data_arr = <<>>
    /\ da = NoIndex
    /\ file = <<>>
    /\ dumped = NoDump
    /\ res = NoCall
    /\ iter = NoIter
    /\ arrs = NoArrs
    /\ writes = <<>>
    /\ \E S \in (SUBSET FindKeys) \ {{}}, bits \in SUBSET FindBits,
          start \in FindStarts :
            /\ stack = << <<1, [NewNode(0) EXCEPT !.nexts = NodesOf(S)]>> >>
            /\ bit_cache = [bits |-> {0, 1} \cup bits, start |-> start]

\* Trie::find_base(&node.nexts, &bit_cache)
FindBase ==
    /\ pc = "find_base"
    /\ LET fb == find_base(stack[1][2].nexts, bit_cache)
       IN  res' = [op |-> "find_base", key |-> <<>>,
                   out |-> IF fb.panic THEN Panic ELSE Some(fb.base)]
    /\ pc' = "found"
    /\ UNCHANGED <<trie, sets, writes, builder, da, file, dumped, iter, arrs>>

NextFindBase == FindBase

SpecFindBase == InitFindBase /\ [][NextFindBase]_vars

----------------------------------------------------------------------------
(* Properties *)

\* the values set for key so far, in the order of the set calls
ValuesOf(key) == IF key \in SetKeys THEN sets[key] ELSE <<>>

Inserted(key) == ValuesOf(key) # <<>>

Range(seq) == { seq[j] : j \in 1..Len(seq) }

\* C1: after to_double_array, get(K) of every inserted key K, the
\* zero-length key included, returns exactly the values set for K, in the
\* order of the set calls.
C1_RoundTrip ==
    (res.op = "get" /\ Inserted(res.key)) => res.out = Some(ValuesOf(res.key))

Ascending(pairs) ==
    \A j \in 1..(Len(pairs) - 1) : Len(pairs[j][1]) < Len(pairs[j + 1][1])

\* C3 as stated: for any inserted key K and any query Q of which K is a
\* prefix, prefix_search(Q) contains (K, values(K)), in strictly ascending
\* prefix length.
C3_PrefixSoundness ==
    res.op = "prefix_search" =>
        /\ ~res.out.panic
        /\ \A K \in SetKeys :
              (Inserted(K) /\ IsPrefix(K, res.key))
                  => <<K, ValuesOf(K)>> \in Range(res.out.val)
        /\ Ascending(res.out.val)

\* C3 amended: for any inserted key K of at least one byte and any query Q
\* of which K is a prefix, prefix_search(Q) contains (K, values(K)), and the
\* pairs of the result are in strictly ascending prefix length.
C3_PrefixSoundnessNonEmpty ==
    res.op = "prefix_search" =>
        /\ ~res.out.panic
        /\ \A K \in SetKeys :
              (K # <<>> /\ Inserted(K) /\ IsPrefix(K, res.key))
                  => <<K, ValuesOf(K)>> \in Range(res.out.val)
        /\ Ascending(res.out.val)

\* prefix_search("aba") returned both "a" and "ab"
C3_Witness ==
    /\ res.op = "prefix_search"
    /\ res.key = <<97, 98, 97>>
    /\ Inserted(<<97>>)
    /\ Inserted(<<97, 98>>)
    /\ Len(res.out.val) = 2

\* C4: every pair returned by prefix_search(Q) is (P, values(P)) for an
\* inserted key P that is a prefix of Q; nothing is returned for a prefix
\* never inserted or for an inserted key that branches off Q.
C4_PrefixExactness ==
    res.op = "prefix_search" =>
        \A j \in 1..Len(res.out.val) :
            LET P == res.out.val[j][1]
            IN  /\ Inserted(P)
                /\ IsPrefix(P, res.key)
                /\ res.out.val[j][2] = ValuesOf(P)

\* prefix_search("aa") returned only "a" although "ab", which branches off
\* the query, is inserted too
C4_Witness ==
    /\ res.op = "prefix_search"
    /\ res.key = <<97, 97>>
    /\ Inserted(<<97>>)
    /\ Inserted(<<97, 98>>)
    /\ res.out = Some(<< <<(<<97>>), ValuesOf(<<97>>)>> >>)

\* C5: the items pulled from prefix_search_iter(Q) up to its first none,
\* in order, are the list prefix_search(Q) returns.
C5_IterEquivalence ==
    (iter.live /\ iter.ended) => Some(iter.items) = prefix_search(da, iter.it.key)

\* an iterator over "aba" that gave two items and then none
C5_Witness ==
    /\ iter.live
    /\ iter.ended
    /\ iter.it.key = <<97, 98, 97>>
    /\ Len(iter.items) = 2

\* C6: the index that dump returns answers get and prefix_search as the
\* index it consumed did, on every key, whatever file was at the path.
C6_PersistenceFidelity ==
    dumped.done =>
        \A k \in QueryKeys :
            /\ get(da, k) = dumped.get[k]
            /\ prefix_search(da, k) = dumped.prefix_search[k]

\* a dumped index of at least two keys, one of them found by get
C6_Witness ==
    /\ dumped.done
    /\ file = da.mmap
    /\ Inserted(<<97, 98>>)
    /\ Inserted(<<98>>)
    /\ res.op = "get"
    /\ res.out.some

\* C7: the index made by from_arrays(a, b, c) exposes exactly (a, b, c) as
\* BASE, CHECK and DATA, and so does from_slice applied to its blob.
C7_LayoutRoundTrip ==
    (pc = "built" /\ res.op \in {"from_arrays", "from_slice"}) =>
        LET A == get_arrays(da)
        IN  /\ U32Slice(A, A.base_arr) = arrs.a
            /\ U32Slice(A, A.check_arr) = arrs.b
            /\ A.data_arr = arrs.c

\* an index reloaded by from_slice from arrays of different lengths
C7_Witness ==
    /\ res.op = "from_slice"
    /\ Len(arrs.a) = 2
    /\ Len(arrs.b) = 1
    /\ arrs.a[2] = 16909060
    /\ arrs.c # <<>>

\* C8: Trie.get(K) returns the values set for K in the order of their set
\* calls, and none when K was never set, also when K is only a proper
\* prefix of a set key.
C8_TrieLookup ==
    res.op = "trie_get" =>
        res.out = IF Inserted(res.key) THEN Some(ValuesOf(res.key)) ELSE None

\* Trie.get("a") returned two different values, in call order, with "b"
\* set as well
C8_Witness ==
    /\ res.op = "trie_get"
    /\ res.key = <<97>>
    /\ res.out = Some(<<300, 1>>)
    /\ Inserted(<<98>>)

\* C9: Trie.set on a key that already holds 256 values is rejected and does
\* not append, so no key ever holds more than 256 values.
C9_ValueCap ==
    \A k \in SetKeys : Len(TrieGet(trie, k).val) <= ValueCap

\* C10: on an index loaded from arbitrary BASE and CHECK contents, a lookup
\* whose base + b lies outside the arrays ends in 'no match', never in a
\* crash.
C10_DefensiveLookup ==
    (res.op \in {"get", "prefix_search", "next"} /\ da.header.base_len >= 2)
        => ~res.out.panic

----------------------------------------------------------------------------
(* Properties of the arrays to_double_array builds *)

\* the index at which the node of key was placed: the root is at 1, a child
\* where its CHECK was written
NodeIndex(log, key) ==
    IF key = <<>> THEN 1
    ELSE log[CHOOSE j \in 1..Len(log) :
                /\ log[j].arr = "check"
                /\ log[j].path \o <<log[j].key>> = key].idx

\* the CHECK writes of the build
CheckWrites == { j \in 1..Len(writes) : writes[j].arr = "check" }

\* BASE[i], CHECK[i] and DATA of the built index
BaseOf(i) == LEValue(da.mmap, da.header.base_idx + 4 * i, 4)
CheckOf(i) == LEValue(da.mmap, da.header.check_idx + 4 * i, 4)
DataOf == SubSeq(da.mmap, da.header.data_idx + 1, Len(da.mmap))

\* the trie node that the key bytes of path lead to
RECURSIVE NodeAt(_, _)
NodeAt(node, path) ==
    IF path = <<>> THEN node
    ELSE LET r == binary_search(node.nexts, Head(path), 0, Len(node.nexts))
         IN  NodeAt(At(node.nexts, r.i), Tail(path))

\* a trie node was placed at index p: the root at 1, a child by its CHECK
Placed(p) ==
    \/ p = 1
    \/ \E j \in CheckWrites : writes[j].idx = p /\ writes[j].key # U8Max

\* data begins at offset off with bytes
BeginsAt(data, off, bytes) ==
    /\ off + Len(bytes) <= Len(data)
    /\ SubSeq(data, off + 1, off + Len(bytes)) = bytes

\* C11: after to_double_array, for every node p that has values (the root,
\* index 1, included when the zero-length key was inserted, whether or not
\* the root has children), CHECK[BASE[p] + 0xFF] = p and BASE[BASE[p] + 0xFF]
\* is the offset in DATA at which the encoded value list of p begins.
C11_SentinelInvariant ==
    pc = "built" =>
        \A K \in SetKeys :
            Inserted(K) =>
                LET p == NodeIndex(writes, K)
                    v == BaseOf(p) + U8Max
                IN  /\ v < da.header.check_len
                    /\ CheckOf(v) = p
                    /\ BeginsAt(DataOf, BaseOf(v),
                                Serialize(ValuesOf(K)))

\* C12: after to_double_array, for every index i with CHECK[i] # 0, either
\* i = BASE[CHECK[i]] + k where k is the key byte of a child of the trie
\* node placed at CHECK[i], or i = BASE[CHECK[i]] + 0xFF and the DATA block
\* at offset BASE[i] decodes to the nonempty value list of that node.
\* (Read in the states where to_double_array has just returned: no lookup
\* changes the index.)
C12_ArrayInvariant ==
    (pc = "built" /\ res.op = "none" /\ ~iter.live /\ ~dumped.done) =>
        \A i \in 0..(da.header.check_len - 1) :
            CheckOf(i) # 0 =>
                LET p == CheckOf(i)
                IN  /\ Placed(p)
                    /\ LET N == NodeAt(trie.root, PathAt(writes, p))
                       IN  \/ \E j \in 1..Len(N.nexts) :
                                 i = BaseOf(p) + N.nexts[j].key
                           \/ /\ i = BaseOf(p) + U8Max
                              /\ N.values # <<>>
                              /\ Deserialize(DataOf, BaseOf(i)) = Some(N.values)

\* a built index in which the node of "a" has the child "ab" in its slot
\* and two values behind its sentinel slot
C12_Witness ==
    /\ pc = "built"
    /\ sets[<<97>>] = <<300, 1>>
    /\ Inserted(<<97, 98>>)
    /\ LET p == NodeIndex(writes, <<97>>)
       IN  /\ CheckOf(BaseOf(p) + 98) = p
           /\ CheckOf(BaseOf(p) + U8Max) = p
           /\ Deserialize(DataOf, BaseOf(BaseOf(p) + U8Max)) = Some(<<300, 1>>)

\* the occupied indices of the built arrays: 0 and 1, which are reserved,
\* and every index whose CHECK was written
Occupied == {0, 1} \cup { writes[j].idx : j \in CheckWrites }

\* C13: to_double_array returns BASE and CHECK of equal length, which is
\* exactly 256 when the trie is empty (nothing was set) and otherwise
\* (greatest occupied index) + 256.
C13_FinalLength ==
    (pc = "built" /\ ~dumped.done) =>
        /\ da.header.base_len = da.header.check_len
        /\ da.header.base_len = IF trie.len = 0 THEN max_key
                                ELSE SetMax(Occupied) + max_key

\* C14: on every index that to_double_array builds from any sequence of set
\* calls (none included), every BASE/CHECK position that get, prefix_search
\* and the prefix iterator read, each base + b and each base + 0xFF, is
\* below the array length: no lookup fails on an index out of range.
C14_LookupsInRange ==
    res.op \in {"get", "prefix_search", "next"} => ~res.out.panic

\* a get whose first transition reads CHECK above the greatest occupied
\* index of the arrays, and the probe of a found key that reads the
\* greatest occupied index itself
C14_Witness ==
    /\ pc = "built"
    /\ res.op = "get"
    /\ \/ /\ res.key = <<127>>
          /\ trie.len > 0
          /\ BaseOf(1) + 127 > SetMax(Occupied)
          /\ res.out = None
       \/ /\ Inserted(res.key)
          /\ BaseOf(NodeIndex(writes, res.key)) + U8Max = SetMax(Occupied)
          /\ res.out.some

\* every slot that the children of nodes take with the first one at e is
\* unoccupied
Fits(nodes, bc, e) ==
    \A j \in 1..Len(nodes) : (e - nodes[1].key) + nodes[j].key \notin bc.bits

\* the smallest index at or after the cursor with which the children fit
FirstFit(nodes, bc) ==
    LET top == IF SetMax(bc.bits) + 1 > bc.start THEN SetMax(bc.bits) + 1
               ELSE bc.start
    IN  CHOOSE e \in bc.start..top :
            /\ Fits(nodes, bc, e)
            /\ \A e2 \in bc.start..(e - 1) : ~Fits(nodes, bc, e2)

\* C15: for a nonempty ascending child list and any bit-cache contents,
\* find_base returns e - first_key where e is the smallest unoccupied index
\* at or after the search cursor such that slot (e - first_key) + key is
\* unoccupied for every child key: the first fitting candidate wins.
C15_FindBaseResult ==
    res.op = "find_base" =>
        LET nodes == stack[1][2].nexts
        IN  res.out = Some(FirstFit(nodes, bit_cache) - nodes[1].key)

\* find_base passed over the free index at the cursor, and the free index
\* after it, because a later child's slot was taken
C15_Witness ==
    /\ res.op = "find_base"
    /\ bit_cache.start = 256
    /\ {256, 257} \cap bit_cache.bits = {}
    /\ Len(stack[1][2].nexts) = 3
    /\ res.out.some
    /\ res.out.val + stack[1][2].nexts[1].key > 257

\* C16: in every state of to_double_array, distinct trie nodes, ordinary
\* children and 0xFF sentinel value slots alike, occupy distinct array
\* indices: CHECK[i] is written at most once per index and never at index 0
\* or 1.
C16_NoSharedSlot ==
    \A j \in CheckWrites :
        /\ writes[j].idx \notin {0, 1}
        /\ \A k \in CheckWrites : k # j => writes[k].idx # writes[j].idx

\* "", "a" and "ab" are placed, five slots in all, and the first child of
\* some node went above an index that was still free, because a later
\* child would have shared a slot
C16_Witness ==
    /\ pc \in {"convert", "built"}
    /\ Inserted(<<>>)
    /\ Inserted(<<97>>)
    /\ Inserted(<<97, 98>>)
    /\ Cardinality(CheckWrites) = 5
    /\ \E j \in CheckWrites :
          /\ writes[j - 1].key = -1
          /\ \E e \in max_key..(writes[j].idx - 1) :
                \A k \in CheckWrites : k < j => writes[k].idx # e

\* C17: once PrefixSearchIter::next has returned none, because the key was
\* consumed or because a transition failed, every later call to next
\* returns none as well; a failed transition never lets the iterator resume
\* matching later bytes of the key from the last node reached.
C17_IterStaysExhausted ==
    (iter.live /\ iter.ended /\ res.op = "next") => ~res.out.some

====
